---- MODULE Spec2Model ----
(***************************************************************************)
(* A model of src/code/functions.py: the supersampling grid generator      *)
(* (point2grid), the forward field evaluator (magnetic_data), the Jacobian *)
(* builder (sensitivity) and the plane sampler (coordplane).               *)
(*                                                                         *)
(* One behaviour is one call: Call draws the function and its arguments,   *)
(* and the following steps execute the function's body in program order.   *)
(* Lengths are kept in integer units of 1/UnitsPerMicron micrometre, so    *)
(* that 1e-6*l/ns is exact for the resolutions used.  Kernel values and    *)
(* their means are exact rationals <<numerator, denominator>>.             *)
(***************************************************************************)
EXTENDS Integers, Sequences, FiniteSets, TLC

\* ---------------------------------------------------------------- bounds
MaxN == 2
MaxP == 2
MaxNs == 3
MaxAlpha == 4
MaxShape == 2

\* ------------------------------------------------------ program constants
\* 0.000001 (micrometre -> metre), in model units per micrometre
UnitsPerMicron == 21
\* ns = 7 in magnetic_data and sensitivity
FixedNs == 7
\* CM*T2NT = 1e-7 * 1e9
CM_T2NT == 100

\* ------------------------------------------------------------- rationals
Abs(n) == IF n < 0 THEN -n ELSE n

RECURSIVE Gcd(_, _)
Gcd(a, b) == IF b = 0 THEN a ELSE Gcd(b, a % b)

Rat(n, d) ==
  LET g == Gcd(Abs(n), d)
  IN  IF n = 0 THEN <<0, 1>> ELSE <<n \div g, d \div g>>

RatInt(n) == <<n, 1>>

RatAdd(a, b) == Rat(a[1] * b[2] + b[1] * a[2], a[2] * b[2])

RatScale(c, a) == Rat(c * a[1], a[2])

RECURSIVE SumSeq(_)
SumSeq(s) == IF Len(s) = 0 THEN 0 ELSE s[1] + SumSeq(Tail(s))

\* np.mean of a row of integer kernel values
Mean(row) == Rat(SumSeq(row), Len(row))

\* ------------------------------------------------------- numpy primitives
\* np.arange(lo, hi)
Arange(lo, hi) == [k \in 1..(hi - lo) |-> lo + k - 1]

ScaleSeq(c, s) == [k \in 1..Len(s) |-> c * s[k]]

\* np.meshgrid with 'ij' indexing in place of the default
MeshgridXByRow(a, b) == [r \in 1..Len(b) |-> [c \in 1..Len(a) |-> a[r]]]

\* np.meshgrid(a, b), default 'xy' indexing: both of shape (len(b), len(a))
MeshgridX(a, b) == [r \in 1..Len(b) |-> [c \in 1..Len(a) |-> a[c]]]
MeshgridY(a, b) == [r \in 1..Len(b) |-> [c \in 1..Len(a) |-> b[r]]]

\* ndarray.ravel(), row-major
Ravel(m) ==
  IF Len(m) = 0 THEN <<>>
  ELSE LET w == Len(m[1])
       IN  [k \in 1..(Len(m) * w) |-> m[((k - 1) \div w) + 1][((k - 1) % w) + 1]]

\* np.resize(a, n): a repeated cyclically up to n elements
Resize(a, n) == [k \in 1..n |-> a[((k - 1) % Len(a)) + 1]]

\* np.reshape(a, (rows, cols)), row-major
Reshape(a, rows, cols) == [r \in 1..rows |-> [c \in 1..cols |-> a[(r - 1) * cols + c]]]

\* ndarray.T of a rows x cols matrix
Transpose(m, rows, cols) == [c \in 1..cols |-> [r \in 1..rows |-> m[r][c]]]

\* ------------------------------------------------------------ point2grid
\* the assertions with a non-negative, not a positive, first dimension
P2GPreconditionsNonNegative(x, y, hasZ, z, ea, ns) ==
  /\ ea[1] >= 0 /\ ea[2] > 0
  /\ Len(x) = Len(y)
  /\ (hasZ => Len(x) = Len(z))
  /\ ns % 2 # 0

\* lines 36-44: the four assertions
P2GPreconditions(x, y, hasZ, z, ea, ns) ==
  /\ ea[1] > 0 /\ ea[2] > 0
  /\ Len(x) = Len(y)
  /\ (hasZ => Len(x) = Len(z))
  /\ ns % 2 # 0

\* lines 46-47: dx = 0.000001*effective_area[0]/ns
Spacing(l, ns) == (UnitsPerMicron * l) \div ns

\* the offsets one step off centre: np.arange(-ns2+1, ns2+2)
LocalOffsetsOffCentre(ns) == Arange(-(ns \div 2) + 1, (ns \div 2) + 2)

\* line 52: np.arange(-ns2, ns2+1) with ns2 = int(ns//2)
LocalOffsets(ns) == Arange(-(ns \div 2), (ns \div 2) + 1)

\* line 52: x_small_grid, flattened as at line 64
SmallGridX(dx, dy, ns) ==
  Ravel(MeshgridX(ScaleSeq(dx, LocalOffsets(ns)), ScaleSeq(dy, LocalOffsets(ns))))

\* line 52: y_small_grid, flattened as at line 66
SmallGridY(dx, dy, ns) ==
  Ravel(MeshgridY(ScaleSeq(dx, LocalOffsets(ns)), ScaleSeq(dy, LocalOffsets(ns))))

\* lines 57-61: np.resize(a, Q*a.size).reshape(Q, a.size).T.ravel()
Replicate(a, Q) ==
  Ravel(Transpose(Reshape(Resize(a, Q * Len(a)), Q, Len(a)), Q, Len(a)))

\* lines 63-66: for i in range(n): grid[i*Q:(i+1)*Q] += small
RECURSIVE AddBlocks(_, _, _, _, _)
AddBlocks(grid, small, i, n, Q) ==
  IF i >= n THEN grid
  ELSE AddBlocks([k \in 1..Len(grid) |->
                    IF k > i * Q /\ k <= (i + 1) * Q
                      THEN grid[k] + small[k - i * Q]
                      ELSE grid[k]],
                 small, i + 1, n, Q)

\* lines 46-71: the grids point2grid returns once its assertions passed
GridX(x, ea, ns) ==
  AddBlocks(Replicate(x, ns * ns),
            SmallGridX(Spacing(ea[1], ns), Spacing(ea[2], ns), ns),
            0, Len(x), ns * ns)

GridY(y, ea, ns) ==
  AddBlocks(Replicate(y, ns * ns),
            SmallGridY(Spacing(ea[1], ns), Spacing(ea[2], ns), ns),
            0, Len(y), ns * ns)

GridZ(z, ns) == Replicate(z, ns * ns)

\* ----------------------------------------------------- the field kernels
\* fatiando.gravmag.prism / sphere are consumed as opaque capabilities.  The
\* stand-in below is deterministic, differs between kernels and sources and
\* is not linear in the point, so that an average over a footprint differs
\* from the value at its centre.
KindCode(kind) ==
  CASE kind = "xz" -> 1 [] kind = "yz" -> 2 [] kind = "zz" -> 3
    [] kind = "xy" -> 4 [] kind = "yy" -> 5

\* prism.kernel<kind>(xp, yp, zp, prism) at one point
Kernel(kind, px, py, pz, src) ==
  KindCode(kind) * (px * px + 1) + src.geo * (py * py + px) + pz + 7 * src.geo

\* the three kernels behind each field component
ComponentKinds(comp) ==
  IF comp = "bz" THEN <<"xz", "yz", "zz">> ELSE <<"xy", "yy", "yz">>

\* prism.bz / prism.by / sphere.bz / sphere.by of one source at one point
SourceField(comp, px, py, pz, src) ==
  LET k == ComponentKinds(comp)
  IN  src.m[1] * Kernel(k[1], px, py, pz, src)
      + src.m[2] * Kernel(k[2], px, py, pz, src)
      + src.m[3] * Kernel(k[3], px, py, pz, src)

RECURSIVE FieldAt(_, _, _, _, _)
FieldAt(comp, px, py, pz, sources) ==
  IF Len(sources) = 0 THEN 0
  ELSE SourceField(comp, px, py, pz, sources[1])
       + FieldAt(comp, px, py, pz, Tail(sources))

\* prism.bz(x, y, z, model) etc.: one value per point
FieldArray(comp, xs, ys, zs, sources) ==
  [k \in 1..Len(xs) |-> FieldAt(comp, xs[k], ys[k], zs[k], sources)]

\* prism.kernelxz(x, y, z, model[i]) etc.: one value per point
KernelArray(kind, xs, ys, zs, src) ==
  [k \in 1..Len(xs) |-> Kernel(kind, xs[k], ys[k], zs[k], src)]

\* the mean over every n-th value: np.reshape(values, (Q, n)) averaged on
\* axis 0
MeanRowsStrided(values, n, Q) ==
  [r \in 1..n |-> Mean([q \in 1..Q |-> values[(q - 1) * n + r]])]

\* np.mean(np.reshape(values, (n, Q)), axis=1)
MeanRows(values, n, Q) ==
  LET m == Reshape(values, n, Q)
  IN  [r \in 1..n |-> Mean(m[r])]

\* an array of plain values, as exact rationals
AsRats(values) == [k \in 1..Len(values) |-> RatInt(values[k])]

\* B += other, elementwise
AddArrays(a, b) == [k \in 1..Len(a) |-> RatAdd(a[k], b[k])]

\* ---------------------------------------------------------- magnetic_data
\* the assertion with an off-by-one upper end
AlphaValidUpTo4(alpha) == alpha >= 0 /\ alpha <= 4

\* line 104: the plane-index assertion
AlphaValid(alpha) == (alpha = 0) \/ (alpha = 1) \/ (alpha = 2) \/ (alpha = 3)

\* lines 113/118 and 124/128: the branches the two if statements execute
VerticalBranch(alpha) == (alpha = 0) \/ (alpha = 2)
InPlaneBranch(alpha) == (alpha = 1) \/ (alpha = 3)

BranchesTaken(alpha) ==
  (IF VerticalBranch(alpha) THEN {"bz"} ELSE {})
    \cup (IF InPlaneBranch(alpha) THEN {"by"} ELSE {})

\* lines 114-116 / 119-121: one averaged branch
AveragedField(comp, gx, gy, gz, n, ns, model, hasGrains, grains) ==
  LET prisms == MeanRows(FieldArray(comp, gx, gy, gz, model), n, ns * ns)
  IN  IF hasGrains
        THEN AddArrays(prisms, MeanRows(FieldArray(comp, gx, gy, gz, grains), n, ns * ns))
        ELSE prisms

\* lines 125-127 / 129-131: one direct branch
DirectField(comp, x, y, z, model, hasGrains, grains) ==
  LET prisms == AsRats(FieldArray(comp, x, y, z, model))
  IN  IF hasGrains
        THEN AddArrays(prisms, AsRats(FieldArray(comp, x, y, z, grains)))
        ELSE prisms

\* ------------------------------------------------------------ sensitivity
\* an entry of np.empty that no statement has written: whatever the
\* allocator left there
Uninit == <<0, 0>>

\* line 213: G = np.empty((x.size, 3*P))
EmptyMatrix(n, P) == [r \in 1..n |-> [c \in 1..(3 * P) |-> Uninit]]

\* line 215: cols = np.reshape(np.arange(3*P), (P, 3)); row i, 0-based columns
Cols(P, i) == Reshape(Arange(0, 3 * P), P, 3)[i + 1]

\* the in-plane block with its last two kernels exchanged
KernelKindsExchanged(alpha) ==
  IF alpha = 0 \/ alpha = 2 THEN <<"xz", "yz", "zz">>
  ELSE IF alpha = 1 \/ alpha = 3 THEN <<"xy", "yz", "yy">>
  ELSE <<>>

\* lines 225-232 and 236-243: the kernels of the three columns of a block
KernelKinds(alpha) ==
  IF alpha = 0 \/ alpha = 2 THEN <<"xz", "yz", "zz">>
  ELSE IF alpha = 1 \/ alpha = 3 THEN <<"xy", "yy", "yz">>
  ELSE <<>>

\* lines 226-232: one averaged column
AveragedColumn(kind, gx, gy, gz, n, ns, prism) ==
  MeanRows(KernelArray(kind, gx, gy, gz, prism), n, ns * ns)

\* lines 237-243: one direct column
DirectColumn(kind, x, y, z, prism) == AsRats(KernelArray(kind, x, y, z, prism))

\* G[:, col] = values, col 0-based
SetColumn(M, col, values) ==
  [r \in 1..Len(M) |-> [M[r] EXCEPT ![col + 1] = values[r]]]

\* lines 224-232 / 235-243: the body of the loop for prism i (0-based)
WriteBlock(M, P, i, kinds, c1, c2, c3) ==
  IF Len(kinds) = 0 THEN M
  ELSE SetColumn(SetColumn(SetColumn(M, Cols(P, i)[1], c1), Cols(P, i)[2], c2),
                 Cols(P, i)[3], c3)

\* line 245: G *= CM*T2NT
ScaleMatrix(M) ==
  [r \in 1..Len(M) |->
     [c \in 1..Len(M[r]) |->
        IF M[r][c] = Uninit THEN Uninit ELSE RatScale(CM_T2NT, M[r][c])]]

\* ------------------------------------------------------------- coordplane
\* np.linspace(a, b, n)
Linspace(a, b, n) ==
  [k \in 1..n |-> IF n = 1 THEN a ELSE a + ((k - 1) * (b - a)) \div (n - 1)]

\* gridder.regular(area, shape, z) as called at lines 424-430: the two
\* in-plane coordinates and the constant third one, each of nx*ny elements
Regular(area, shape, zval) ==
  LET xs == Linspace(area[1], area[2], shape[1])
      ys == Linspace(area[3], area[4], shape[2])
  IN  << Ravel(MeshgridY(ys, xs)),
         Ravel(MeshgridX(ys, xs)),
         [k \in 1..(shape[1] * shape[2]) |-> zval] >>

\* lines 416-418: voo = h*0.000001 + 0.5*L
Voo(h, L) == UnitsPerMicron * h + L \div 2

\* lines 419-421: np.cos/np.sin(np.deg2rad(theta)), theta a multiple of 90
Cos(theta) ==
  CASE theta % 360 = 0 -> 1 [] theta % 360 = 90 -> 0
    [] theta % 360 = 180 -> -1 [] theta % 360 = 270 -> 0

Sin(theta) ==
  CASE theta % 360 = 0 -> 0 [] theta % 360 = 90 -> 1
    [] theta % 360 = 180 -> 0 [] theta % 360 = 270 -> -1

\* lines 423-430: the unrotated coordinates, as a record of x, y, z
PlaneCoords(h, L, shape, area, alpha) ==
  LET lo == Regular(area, shape, -Voo(h, L))
      hi == Regular(area, shape, Voo(h, L))
  IN  CASE alpha = 0 -> [x |-> lo[1], y |-> lo[2], z |-> lo[3]]
        [] alpha = 1 -> [x |-> hi[1], z |-> hi[2], y |-> hi[3]]
        [] alpha = 2 -> [x |-> hi[1], y |-> hi[2], z |-> hi[3]]
        [] alpha = 3 -> [x |-> lo[1], z |-> lo[2], y |-> lo[3]]

\* cos*a - sin*b and sin*a + cos*b, elementwise
RotFirst(theta, a, b) == [k \in 1..Len(a) |-> Cos(theta) * a[k] - Sin(theta) * b[k]]
RotSecond(theta, a, b) == [k \in 1..Len(a) |-> Sin(theta) * a[k] + Cos(theta) * b[k]]

\* the rotation applied to (x, y) on every plane
RotatedInXY(c, alpha, theta) ==
  [x |-> RotFirst(theta, c.x, c.y), y |-> RotSecond(theta, c.x, c.y), z |-> c.z]

\* lines 432-444: the rotated coordinates
Rotated(c, alpha, theta) ==
  IF alpha = 0 \/ alpha = 2
    THEN [x |-> RotFirst(theta, c.x, c.y), y |-> RotSecond(theta, c.x, c.y), z |-> c.z]
    ELSE [x |-> RotFirst(theta, c.x, c.z), z |-> RotSecond(theta, c.x, c.z), y |-> c.y]

\* ------------------------------------------------------------------ state
VARIABLES
  call,         \* the function called and its arguments
  pc,           \* the position in the function's body
  outcome,      \* "running", "returned" or the exception raised
  xg, yg, zg,   \* point2grid's grids
  gridDone,     \* whether point2grid computed its grids
  kernelCalls,  \* how many kernel evaluations the call has made
  branches,     \* the kernel branches magnetic_data executed
  B,            \* magnetic_data's array
  G, G2,        \* sensitivity's matrix, for model and for the twin model
  writes,       \* how often each column of G was assigned
  i,            \* sensitivity's loop index
  raw, rot      \* coordplane's coordinates before and after rotation

vars == <<call, pc, outcome, xg, yg, zg, gridDone, kernelCalls, branches,
          B, G, G2, writes, i, raw, rot>>

\* ----------------------------------------------------------------- inputs
Layouts == {1, 2}

\* sensor centre k of a layout: distinct centres, or one centre repeated
Centre(layout, k) ==
  IF layout = 1 THEN <<21 * (k - 1), 21 * (k % 2), 5 + k>> ELSE <<21, 0, 7>>

Coordinate(layout, n, axis) == [k \in 1..n |-> Centre(layout, k)[axis]]

DropLast(s) == IF Len(s) = 0 THEN s ELSE SubSeq(s, 1, Len(s) - 1)

EffectiveAreas == {<<2, 1>>, <<0, 5>>, <<1, -1>>}

Magnetizations == <<(<<1, 0, 2>>), (<<0, 1, 1>>), (<<2, 1, 0>>), (<<1, 1, 1>>)>>

\* the interpretation model of `sample`: prism k of P, side by side along x
SampleModel(P) ==
  [k \in 1..P |-> [geo |-> k, m |-> Magnetizations[((k - 1) % 4) + 1]]]

\* the same model with the geometry of prism j changed (j = 0: unchanged)
WithPrismMoved(model, j) ==
  [k \in 1..Len(model) |->
     IF k = j THEN [model[k] EXCEPT !.geo = model[k].geo + 10] ELSE model[k]]

Grains == << [geo |-> 5, m |-> <<1, 2, 1>>] >>

NoCall ==
  [fn |-> "none", x |-> <<>>, y |-> <<>>, z |-> <<>>, hasZ |-> FALSE,
   hasEA |-> FALSE, ea |-> <<0, 0>>, ns |-> 0, alpha |-> 0,
   model |-> <<>>, model2 |-> <<>>, hasGrains |-> FALSE, grains |-> <<>>,
   P |-> 0, h |-> 0, L |-> 0, shape |-> <<0, 0>>, area |-> <<0, 0, 0, 0>>,
   theta |-> 0]

N == Len(call.x)

NoCoords == [x |-> <<>>, y |-> <<>>, z |-> <<>>]

Init ==
  /\ call = NoCall
  /\ pc = "idle"
  /\ outcome = "running"
  /\ xg = <<>> /\ yg = <<>> /\ zg = <<>>
  /\ gridDone = FALSE
  /\ kernelCalls = 0
  /\ branches = {}
  /\ B = <<>>
  /\ G = <<>> /\ G2 = <<>>
  /\ writes = <<>>
  /\ i = 0
  /\ raw = NoCoords /\ rot = NoCoords

\* ------------------------------------------------------------- the callers
CallPoint2Grid ==
  /\ pc = "idle"
  /\ \E n \in 0..MaxN, layout \in Layouts, ea \in EffectiveAreas, ns \in 0..MaxNs,
        shape \in {"ok", "yshort", "zshort", "noz"} :
       /\ (n = 0 => layout = 1 /\ shape \in {"ok", "noz"})
       /\ call' = [NoCall EXCEPT
                     !.fn = "point2grid",
                     !.x = Coordinate(layout, n, 1),
                     !.y = IF shape = "yshort" THEN DropLast(Coordinate(layout, n, 2))
                           ELSE Coordinate(layout, n, 2),
                     !.z = IF shape = "zshort" THEN DropLast(Coordinate(layout, n, 3))
                           ELSE IF shape = "noz" THEN <<>>
                           ELSE Coordinate(layout, n, 3),
                     !.hasZ = (shape # "noz"),
                     !.hasEA = TRUE, !.ea = ea, !.ns = ns]
  /\ pc' = "p2g_check"
  /\ UNCHANGED <<outcome, xg, yg, zg, gridDone, kernelCalls, branches, B, G, G2,
                 writes, i, raw, rot>>

\* the sensor arrays and effective area magnetic_data and sensitivity are
\* called with; without an effective area the arrays have equal lengths
\* (ragged arrays are then the kernel library's to reject)
SensorArgs(n, layout, area, shape) ==
  [NoCall EXCEPT
     !.x = Coordinate(layout, n, 1),
     !.y = IF shape = "yshort" THEN DropLast(Coordinate(layout, n, 2))
           ELSE Coordinate(layout, n, 2),
     !.z = IF shape = "zshort" THEN DropLast(Coordinate(layout, n, 3))
           ELSE Coordinate(layout, n, 3),
     !.hasZ = TRUE,
     !.hasEA = (area # <<>>),
     !.ea = IF area = <<>> THEN <<0, 0>> ELSE area]

SensorArgsOk(n, layout, area, shape) ==
  /\ (n = 0 => layout = 1 /\ shape = "ok")
  /\ (area = <<>> => shape = "ok")
  /\ (shape # "ok" => area = <<2, 1>>)

CallMagneticData ==
  /\ pc = "idle"
  /\ \E n \in 0..MaxN, layout \in Layouts, area \in {<<>>, <<2, 1>>, <<0, 5>>},
        shape \in {"ok", "yshort", "zshort"}, alpha \in 0..MaxAlpha,
        P \in 0..MaxP, hasGrains \in BOOLEAN :
       /\ SensorArgsOk(n, layout, area, shape)
       /\ call' = [SensorArgs(n, layout, area, shape) EXCEPT
                     !.fn = "magnetic_data", !.alpha = alpha,
                     !.model = SampleModel(P), !.P = P,
                     !.hasGrains = hasGrains,
                     !.grains = IF hasGrains THEN Grains ELSE <<>>]
  /\ pc' = "md_check"
  /\ UNCHANGED <<outcome, xg, yg, zg, gridDone, kernelCalls, branches, B, G, G2,
                 writes, i, raw, rot>>

CallSensitivity ==
  /\ pc = "idle"
  /\ \E n \in 0..MaxN, layout \in Layouts, area \in {<<>>, <<2, 1>>, <<0, 5>>},
        shape \in {"ok", "yshort"}, alpha \in 0..MaxAlpha,
        P \in 0..MaxP, len \in 0..MaxP :
       \E j \in 0..len :
         /\ SensorArgsOk(n, layout, area, shape)
         /\ ((j = 0) <=> (len = 0 \/ len # P))
         /\ call' = [SensorArgs(n, layout, area, shape) EXCEPT
                       !.fn = "sensitivity", !.alpha = alpha, !.P = P,
                       !.model = SampleModel(len),
                       !.model2 = WithPrismMoved(SampleModel(len), j)]
  /\ pc' = "s_alloc"
  /\ UNCHANGED <<outcome, xg, yg, zg, gridDone, kernelCalls, branches, B, G, G2,
                 writes, i, raw, rot>>

CallCoordplane ==
  /\ pc = "idle"
  /\ \E h \in {0, 3}, L \in {0, 42}, nx \in 1..MaxShape, ny \in 1..MaxShape,
        alpha \in 0..MaxAlpha, q \in 0..3 :
       call' = [NoCall EXCEPT
                  !.fn = "coordplane", !.h = h, !.L = L, !.shape = <<nx, ny>>,
                  !.area = <<-42, 42, 0, 84>>, !.alpha = alpha, !.theta = 90 * q]
  /\ pc' = "cp_grid"
  /\ UNCHANGED <<outcome, xg, yg, zg, gridDone, kernelCalls, branches, B, G, G2,
                 writes, i, raw, rot>>

\* ------------------------------------------------- point2grid, lines 36-71
\* lines 36-44: an assertion fails, or the body is entered
P2GCheck ==
  /\ pc = "p2g_check"
  /\ IF P2GPreconditions(call.x, call.y, call.hasZ, call.z, call.ea, call.ns)
       THEN pc' = "p2g_grid" /\ outcome' = outcome
       ELSE pc' = "done" /\ outcome' = "AssertionError"
  /\ UNCHANGED <<call, xg, yg, zg, gridDone, kernelCalls, branches, B, G, G2,
                 writes, i, raw, rot>>

\* lines 46-71: the grids; point2grid returns to its caller
P2GGrid ==
  /\ pc = "p2g_grid"
  /\ xg' = GridX(call.x, call.ea, call.ns)
  /\ yg' = GridY(call.y, call.ea, call.ns)
  /\ zg' = IF call.hasZ THEN GridZ(call.z, call.ns) ELSE <<>>
  /\ gridDone' = TRUE
  /\ pc' = CASE call.fn = "point2grid" -> "done"
             [] call.fn = "magnetic_data" -> "md_avg"
             [] call.fn = "sensitivity" -> "s_loop"
  /\ outcome' = IF call.fn = "point2grid" THEN "returned" ELSE outcome
  /\ UNCHANGED <<call, kernelCalls, branches, B, G, G2, writes, i, raw, rot>>

\* ---------------------------------------------- magnetic_data, lines 104-133
\* lines 104-111: the assertion, then ns = 7 and the call of point2grid
MDCheck ==
  /\ pc = "md_check"
  /\ IF ~AlphaValid(call.alpha)
       THEN pc' = "done" /\ outcome' = "AssertionError" /\ call' = call
       ELSE /\ outcome' = outcome
            /\ call' = IF call.hasEA THEN [call EXCEPT !.ns = FixedNs] ELSE call
            /\ pc' = IF call.hasEA THEN "p2g_check" ELSE "md_direct"
  /\ UNCHANGED <<xg, yg, zg, gridDone, kernelCalls, branches, B, G, G2,
                 writes, i, raw, rot>>

\* the array the branches leave in B: the last branch executed assigns it
BranchResult(alpha, vertical, inplane) ==
  IF InPlaneBranch(alpha) THEN inplane
  ELSE IF VerticalBranch(alpha) THEN vertical
  ELSE <<>>

\* lines 113-121 and 133
MDAveraged ==
  /\ pc = "md_avg"
  /\ branches' = BranchesTaken(call.alpha)
  /\ B' = BranchResult(call.alpha,
            AveragedField("bz", xg, yg, zg, N, call.ns, call.model,
                          call.hasGrains, call.grains),
            AveragedField("by", xg, yg, zg, N, call.ns, call.model,
                          call.hasGrains, call.grains))
  /\ kernelCalls' = kernelCalls
       + Cardinality(BranchesTaken(call.alpha)) * (IF call.hasGrains THEN 2 ELSE 1)
  /\ outcome' = IF BranchesTaken(call.alpha) = {} THEN "UnboundLocalError"
                ELSE "returned"
  /\ pc' = "done"
  /\ UNCHANGED <<call, xg, yg, zg, gridDone, G, G2, writes, i, raw, rot>>

\* lines 124-131 and 133
MDDirect ==
  /\ pc = "md_direct"
  /\ branches' = BranchesTaken(call.alpha)
  /\ B' = BranchResult(call.alpha,
            DirectField("bz", call.x, call.y, call.z, call.model,
                        call.hasGrains, call.grains),
            DirectField("by", call.x, call.y, call.z, call.model,
                        call.hasGrains, call.grains))
  /\ kernelCalls' = kernelCalls
       + Cardinality(BranchesTaken(call.alpha)) * (IF call.hasGrains THEN 2 ELSE 1)
  /\ outcome' = IF BranchesTaken(call.alpha) = {} THEN "UnboundLocalError"
                ELSE "returned"
  /\ pc' = "done"
  /\ UNCHANGED <<call, xg, yg, zg, gridDone, G, G2, writes, i, raw, rot>>

\* ------------------------------------------------ sensitivity, lines 213-246
\* lines 213-222: the allocation, then ns = 7 and the call of point2grid
SAlloc ==
  /\ pc = "s_alloc"
  /\ G' = EmptyMatrix(N, call.P)
  /\ G2' = EmptyMatrix(N, call.P)
  /\ writes' = [c \in 1..(3 * call.P) |-> 0]
  /\ i' = 0
  /\ call' = IF call.hasEA THEN [call EXCEPT !.ns = FixedNs] ELSE call
  /\ pc' = IF call.hasEA THEN "p2g_check" ELSE "s_loop"
  /\ UNCHANGED <<outcome, xg, yg, zg, gridDone, kernelCalls, branches, B, raw, rot>>

\* the columns computed from the first prism, whatever the loop index
BlockColumnOfFirstPrism(k, model) ==
  IF call.hasEA
    THEN AveragedColumn(KernelKinds(call.alpha)[k], xg, yg, zg, N, call.ns, model[1])
    ELSE DirectColumn(KernelKinds(call.alpha)[k], call.x, call.y, call.z, model[1])

\* the three columns of prism i of a model, averaged or direct
BlockColumn(k, model) ==
  IF call.hasEA
    THEN AveragedColumn(KernelKinds(call.alpha)[k], xg, yg, zg, N, call.ns, model[i + 1])
    ELSE DirectColumn(KernelKinds(call.alpha)[k], call.x, call.y, call.z, model[i + 1])

BlockOf(M, model) ==
  IF Len(KernelKinds(call.alpha)) = 0 THEN M
  ELSE WriteBlock(M, call.P, i, KernelKinds(call.alpha),
                  BlockColumn(1, model), BlockColumn(2, model), BlockColumn(3, model))

\* lines 224-243: one iteration of the loop over cols; model[i] is read only
\* inside the two if statements
SLoop ==
  /\ pc = "s_loop"
  /\ i < call.P
  /\ IF Len(KernelKinds(call.alpha)) # 0 /\ i >= Len(call.model)
       THEN /\ pc' = "done" /\ outcome' = "IndexError"
            /\ UNCHANGED <<G, G2, writes, i, kernelCalls>>
       ELSE /\ G' = BlockOf(G, call.model)
            /\ G2' = BlockOf(G2, call.model2)
            /\ writes' = [c \in 1..Len(writes) |->
                            IF Len(KernelKinds(call.alpha)) # 0
                               /\ \E k \in 1..3 : Cols(call.P, i)[k] + 1 = c
                              THEN writes[c] + 1 ELSE writes[c]]
            /\ kernelCalls' = kernelCalls + Len(KernelKinds(call.alpha))
            /\ i' = i + 1
            /\ UNCHANGED <<pc, outcome>>
  /\ UNCHANGED <<call, xg, yg, zg, gridDone, branches, B, raw, rot>>

\* lines 245-246
SScale ==
  /\ pc = "s_loop"
  /\ i >= call.P
  /\ G' = ScaleMatrix(G)
  /\ G2' = ScaleMatrix(G2)
  /\ pc' = "done"
  /\ outcome' = "returned"
  /\ UNCHANGED <<call, xg, yg, zg, gridDone, kernelCalls, branches, B, writes, i,
                 raw, rot>>

\* ------------------------------------------------- coordplane, lines 414-444
\* lines 414-430: none of the four if statements runs for another alpha
CPGrid ==
  /\ pc = "cp_grid"
  /\ raw' = IF call.alpha \in 0..3
              THEN PlaneCoords(call.h, call.L, call.shape, call.area, call.alpha)
              ELSE raw
  /\ pc' = "cp_rot"
  /\ UNCHANGED <<call, outcome, xg, yg, zg, gridDone, kernelCalls, branches, B,
                 G, G2, writes, i, rot>>

\* lines 432-444: x_rot[0] of an empty list raises IndexError
CPRotate ==
  /\ pc = "cp_rot"
  /\ IF call.alpha \in 0..3
       THEN rot' = Rotated(raw, call.alpha, call.theta) /\ outcome' = "returned"
       ELSE rot' = rot /\ outcome' = "IndexError"
  /\ pc' = "done"
  /\ UNCHANGED <<call, xg, yg, zg, gridDone, kernelCalls, branches, B,
                 G, G2, writes, i, raw>>

Next ==
  \/ CallPoint2Grid \/ CallMagneticData \/ CallSensitivity \/ CallCoordplane
  \/ P2GCheck \/ P2GGrid
  \/ MDCheck \/ MDAveraged \/ MDDirect
  \/ SAlloc \/ SLoop \/ SScale
  \/ CPGrid \/ CPRotate

Spec == Init /\ [][Next]_vars

\* ===================================================== the checked claims
\* dx = 1e-6*lx/ns and dy = 1e-6*ly/ns of the call, as the specification
\* defines them
ClaimDx(ns) == (UnitsPerMicron * call.ea[1]) \div ns
ClaimDy(ns) == (UnitsPerMicron * call.ea[2]) \div ns

\* subsample q (0-based, row-major: q = r*ns + c) of sensor centre s (1-based)
SubsampleX(s, q, ns) == call.x[s] + ((q % ns) - (ns \div 2)) * ClaimDx(ns)
SubsampleY(s, q, ns) == call.y[s] + ((q \div ns) - (ns \div 2)) * ClaimDy(ns)

\* C1: point2grid returns sequences of length N*ns*ns in which the ns*ns
\* subsamples of centre i occupy the flat indices i*ns*ns .. (i+1)*ns*ns-1 in
\* row-major order: xgrid[i*ns*ns + r*ns + c] = x[i] + (c - ns//2)*dx,
\* ygrid[...] = y[i] + (r - ns//2)*dy and zgrid[...] = z[i].
C1_GridLayout ==
  gridDone =>
    LET ns == call.ns
        Q == ns * ns
    IN  /\ call.ea[1] > 0 /\ call.ea[2] > 0 /\ ns % 2 = 1
        /\ Len(xg) = N * Q
        /\ Len(yg) = N * Q
        /\ call.hasZ => Len(zg) = N * Q
        /\ \A s \in 0..(N - 1), r \in 0..(ns - 1), c \in 0..(ns - 1) :
             /\ xg[s * Q + r * ns + c + 1] = call.x[s + 1] + (c - ns \div 2) * ClaimDx(ns)
             /\ yg[s * Q + r * ns + c + 1] = call.y[s + 1] + (r - ns \div 2) * ClaimDy(ns)
             /\ call.hasZ => zg[s * Q + r * ns + c + 1] = call.z[s + 1]

C1_Witness ==
  /\ call.fn = "point2grid" /\ outcome = "returned"
  /\ N = 2 /\ call.ns = 3 /\ call.hasZ /\ call.x[1] # call.x[2]

\* the value the Jacobian holds for one kernel, one sensor and one prism:
\* the kernel at the sensor, or its mean over the sensor's 49 subsamples,
\* in the units of the returned matrix (times CM*T2NT)
ExpectedEntry(kind, s, prism) ==
  IF call.hasEA
    THEN Rat(SumSeq([q \in 1..49 |->
                       CM_T2NT * Kernel(kind, SubsampleX(s, q - 1, 7),
                                        SubsampleY(s, q - 1, 7), call.z[s], prism)]),
             49)
    ELSE RatInt(CM_T2NT * Kernel(kind, call.x[s], call.y[s], call.z[s], prism))

ClaimKinds(alpha) ==
  IF alpha \in {0, 2} THEN <<"xz", "yz", "zz">> ELSE <<"xy", "yy", "yz">>

\* C2: for alpha in {0,1,2,3} sensitivity returns an N x 3P matrix, every
\* column written exactly once, prism i in columns 3i, 3i+1, 3i+2 holding
\* the xz, yz, zz kernels (alpha 0, 2) or the xy, yy, yz kernels (alpha 1, 3)
\* of prism i, with and without an effective area.
C2_ColumnLayout ==
  (call.fn = "sensitivity" /\ outcome = "returned" /\ call.alpha \in {0, 1, 2, 3}) =>
    /\ Len(G) = N
    /\ Len(writes) = 3 * call.P
    /\ \A c \in 1..(3 * call.P) : writes[c] = 1
    /\ \A s \in 1..N :
         /\ Len(G[s]) = 3 * call.P
         /\ \A p \in 0..(call.P - 1), k \in 1..3 :
              G[s][3 * p + k] = ExpectedEntry(ClaimKinds(call.alpha)[k], s, call.model[p + 1])

C2_Witness ==
  /\ call.fn = "sensitivity" /\ outcome = "returned"
  /\ call.alpha = 1 /\ call.P = 2 /\ N = 2 /\ call.hasEA
  /\ G[1][4] # G[1][6] /\ G[1][1] # G[1][4]

\* the ns a call hands to point2grid
NsOfCall == IF call.fn = "point2grid" THEN call.ns ELSE 7

\* the arguments point2grid must reject
InvalidGridArguments ==
  \/ call.ea[1] <= 0
  \/ call.ea[2] <= 0
  \/ Len(call.x) # Len(call.y)
  \/ (call.hasZ /\ Len(call.z) # Len(call.x))
  \/ NsOfCall % 2 = 0

\* C3: point2grid fails with an assertion, before any grid coordinate is
\* computed, on a non-positive effective area, arrays of different lengths or
\* an even ns; magnetic_data and sensitivity called with such an effective
\* area fail before any kernel is evaluated.
C3_GridValidation ==
  (call.fn \in {"point2grid", "magnetic_data", "sensitivity"}
     /\ call.hasEA /\ InvalidGridArguments) =>
    /\ ~gridDone
    /\ xg = <<>> /\ yg = <<>> /\ zg = <<>>
    /\ kernelCalls = 0
    /\ B = <<>>
    /\ pc \in {"p2g_check", "md_check", "s_alloc", "done"}
    /\ pc = "done" => outcome = "AssertionError"

C3_Witness ==
  /\ call.fn = "magnetic_data" /\ call.ea = <<0, 5>> /\ call.hasEA
  /\ call.alpha \in {0, 1, 2, 3}
  /\ pc = "done" /\ outcome = "AssertionError"

\* C4: magnetic_data with alpha outside {0,1,2,3} fails with an assertion
\* before the grid is generated and before any kernel is evaluated and
\* returns no array; for alpha in {0,1,2,3} exactly one of the two kernel
\* branches (vertical for 0, 2; in-plane for 1, 3) produces the result.
C4_PlaneValidation ==
  call.fn = "magnetic_data" =>
    /\ call.alpha \notin {0, 1, 2, 3} =>
         /\ pc \in {"md_check", "done"}
         /\ ~gridDone /\ kernelCalls = 0 /\ B = <<>> /\ branches = {}
         /\ pc = "done" => outcome = "AssertionError"
    /\ (call.alpha \in {0, 1, 2, 3} /\ outcome = "returned") =>
         /\ Cardinality(branches) = 1
         /\ call.alpha \in {0, 2} => branches = {"bz"}
         /\ call.alpha \in {1, 3} => branches = {"by"}
         /\ Len(B) = N

C4_Witness ==
  /\ call.fn = "magnetic_data" /\ call.alpha = 4 /\ call.hasEA
  /\ pc = "done" /\ outcome = "AssertionError"

\* C5: sensitivity called with alpha outside {0,1,2,3} is rejected and
\* returns no matrix.
\* (Stated for calls with sensors, prisms and a model of P prisms.)
C5_Claim ==
  (call.fn = "sensitivity" /\ call.alpha \notin {0, 1, 2, 3} /\ pc = "done"
     /\ N >= 1 /\ call.P >= 1 /\ Len(call.model) = call.P) =>
    outcome # "returned"

\* C6: sensitivity called with a model whose length differs from P is
\* rejected before any Jacobian column is computed and returns no matrix.
\* (Stated for calls with sensors, prisms and a valid alpha.)
C6_Claim ==
  (call.fn = "sensitivity" /\ Len(call.model) # call.P /\ pc = "done"
     /\ N >= 1 /\ call.P >= 1 /\ call.alpha \in {0, 1, 2, 3}) =>
    /\ outcome # "returned"
    /\ kernelCalls = 0

\* C7: column block i depends only on prism i: two calls that differ only in
\* the geometry of a prism j # i return the same columns 3i .. 3i+2.
C7_BlockDependsOnOwnPrism ==
  (call.fn = "sensitivity" /\ outcome = "returned" /\ call.alpha \in {0, 1, 2, 3}) =>
    \A p \in 1..call.P :
      call.model[p] = call.model2[p] =>
        \A s \in 1..N, k \in 1..3 : G[s][3 * (p - 1) + k] = G2[s][3 * (p - 1) + k]

C7_Witness ==
  /\ call.fn = "sensitivity" /\ outcome = "returned" /\ call.alpha \in {0, 1, 2, 3}
  /\ call.P = 2 /\ N >= 1 /\ call.hasEA
  /\ call.model[1] # call.model2[1] /\ call.model[2] = call.model2[2]
  /\ G[1][1] # G2[1][1]

ClaimVoo == UnitsPerMicron * call.h + call.L \div 2

\* C9: the coordinate along the plane normal returned by coordplane is the
\* stand-off at every grid point, whatever the rotation: z = -voo (alpha 0),
\* y = +voo (alpha 1), z = +voo (alpha 2), y = -voo (alpha 3); only the two
\* other axes are rotated.
C9_NormalAxisConstant ==
  (call.fn = "coordplane" /\ outcome = "returned") =>
    LET n == call.shape[1] * call.shape[2]
        c == Cos(call.theta)
        sn == Sin(call.theta)
    IN  /\ Len(rot.x) = n /\ Len(rot.y) = n /\ Len(rot.z) = n
        /\ \A k \in 1..n :
             /\ call.alpha = 0 => rot.z[k] = -ClaimVoo
             /\ call.alpha = 1 => rot.y[k] = ClaimVoo
             /\ call.alpha = 2 => rot.z[k] = ClaimVoo
             /\ call.alpha = 3 => rot.y[k] = -ClaimVoo
             /\ call.alpha \in {0, 2} =>
                  /\ rot.x[k] = c * raw.x[k] - sn * raw.y[k]
                  /\ rot.y[k] = sn * raw.x[k] + c * raw.y[k]
             /\ call.alpha \in {1, 3} =>
                  /\ rot.x[k] = c * raw.x[k] - sn * raw.z[k]
                  /\ rot.z[k] = sn * raw.x[k] + c * raw.z[k]

C9_Witness ==
  /\ call.fn = "coordplane" /\ outcome = "returned"
  /\ call.alpha = 1 /\ call.theta = 90 /\ call.shape = <<2, 2>>
  /\ call.h = 3 /\ call.L = 42
  /\ rot.x # raw.x

\* the mean, over the 49 grid points 49(s-1)+1 .. 49s of sensor s, of f
BlockMean(s, f(_)) == Rat(SumSeq([q \in 1..49 |-> f(49 * (s - 1) + q)]), 49)

====
